---- MODULE Spec2Model ----
(***************************************************************************)
(* Model of the chat session store (src/lib/stores/chat-store.ts) and of    *)
(* the API key access layer (src/lib/db/api-keys.ts).                      *)
(*                                                                         *)
(* The store is a zustand store: every operation is one synchronous call   *)
(* of set(), so every operation is one atomic action on the snapshot.      *)
(*                                                                         *)
(* Encoding of TypeScript values:                                          *)
(*   - a message id `msg-${Date.now()}-${random suffix}` is the pair       *)
(*     <<timestamp, suffix>>; the null pointer is the empty tuple;         *)
(*   - an optional boolean field is one of "undefined", "false", "true";   *)
(*   - the optional error field is "undefined", "null" or an error text;   *)
(*   - conversation and task ids are strings, "null" standing for null.    *)
(*                                                                         *)
(* Every function of the API key layer makes one call of the backend and   *)
(* touches no other shared state, so a call of a function is one atomic    *)
(* action on the api_keys table. The backend and the encryption functions  *)
(* are collaborators: whether a call of them succeeds is the environment's *)
(* choice.                                                                 *)
(*   - an absent field of an API key or of an update is "undefined";       *)
(*   - what a function returns is a record: its kind ("data", "null",      *)
(*     "true", "false", or "thrown" for a rejected promise) and its value. *)
(***************************************************************************)
EXTENDS Integers, Sequences, FiniteSets, TLC

\* ------------------------------------------------------------------ bounds
\* Largest value of Date.now() the model lets the clock reach.
MaxClock == 1
\* Largest number of messages the model lets the list hold.
MaxMessages == 2
\* Longest text the model lets appendMessageChunk build under Spec and SpecTolerant.
MaxTextLen == 3
\* Most chunks the model lets the messages of the list receive in total under
\* SpecStream.
MaxStreamChunks == 2
\* Most calls the model lets a run make under SpecScenario.
MaxCalls == 5

\* ----------------------------------------------------------- input domains
\* Outcomes of Math.random().toString(36).substring(2, 9).
RandomSuffixes == {"r1", "r2"}

\* Chunks the streaming transport delivers.
Chunks == {"He", "llo"}

\* Values the callers pass to setMessageError.
ErrorValues == {"null", "boom"}

\* Values the callers pass to setCurrentConversationId.
ConversationIds == {"null", "conv1"}

\* Values the callers pass to setCurrentTaskId.
TaskIds == {"null", "task1"}

Null == <<>>

\* Every id addMessage can generate within the bounds.
MessageIds == (0..MaxClock) \X RandomSuffixes

\* The message data (a ChatMessage without its id) the callers pass to
\* addMessage: a user message and an assistant message that starts streaming.
MessageData ==
  { [text |-> "hi", isUser |-> TRUE,  isStreaming |-> "undefined",
     wasManuallyStopped |-> "undefined", error |-> "undefined", attachments |-> "att1"],
    [text |-> "",   isUser |-> FALSE, isStreaming |-> "true",
     wasManuallyStopped |-> "undefined", error |-> "undefined", attachments |-> "undefined"] }

\* The message data the callers pass to addMessage under SpecAdd: the two above
\* and an assistant message that arrives complete (isStreaming: false).
CompleteMessageData ==
  MessageData \cup
  { [text |-> "Hello", isUser |-> FALSE, isStreaming |-> "false",
     wasManuallyStopped |-> "undefined", error |-> "undefined", attachments |-> "undefined"] }

\* Ids the backend gives to the rows of api_keys.
KeyIds == {"k1", "k2"}

\* Values of service_instance_id.
ServiceInstances == {"svc1", "svc2"}

\* Values of process.env.API_ENCRYPTION_KEY: unset, empty, set.
MasterKeys == {"undefined", "", "mk1"}

\* Plaintext key values, the empty string among them.
PlainKeys == {"", "sk-1"}

\* How a call of the backend ends: a result with data, a result with an error,
\* or a rejected promise.
BackendOutcomes == {"ok", "error", "rejected"}

\* How a call of encryptApiKey or decryptApiKey ends on a well-formed input.
CipherOutcomes == {"ok", "throws"}

\* -------------------------------------------------------------- the state
VARIABLES
  messages,               \* ChatState.messages
  streamingMessageId,     \* ChatState.streamingMessageId
  isWaitingForResponse,   \* ChatState.isWaitingForResponse
  currentConversationId,  \* ChatState.currentConversationId
  currentTaskId,          \* ChatState.currentTaskId
  now,                    \* the value Date.now() returns
  lastOp,                 \* observer: the last operation called, its id and the
                          \*   streamingMessageId it found
  lastEvent,              \* observer: the kind of the last call (see the Observe
                          \*   definitions of each specification)
  history,                \* observer: per message, its text at creation, the chunks
                          \*   delivered to it in order, and its first terminal transition
  stoppedIds,             \* observer: ids given to markAsManuallyStopped with no
                          \*   addMessage or clearMessages since
  calls,                  \* observer: the calls made since the store was created,
                          \*   in order
  api_keys,               \* the rows of the api_keys table, by id
  masterKey,              \* process.env.API_ENCRYPTION_KEY
  result,                 \* what the last call of the API key layer returned
  issued,                 \* the calls of collaborators that call made, in order
  apiCall                 \* observer: the last call of the API key layer, its
                          \*   arguments, the collaborators' outcomes, and the master
                          \*   key and the table it found

storeVars == <<messages, streamingMessageId, isWaitingForResponse,
               currentConversationId, currentTaskId>>
observers == <<lastOp, lastEvent, history, stoppedIds, calls>>
apiVars == <<api_keys, masterKey, result, issued, apiCall>>
vars == <<messages, streamingMessageId, isWaitingForResponse,
          currentConversationId, currentTaskId, now, lastOp, lastEvent, history,
          stoppedIds, calls, api_keys, masterKey, result, issued, apiCall>>

\* ------------------------------------------------------------ pure helpers
\* `${Date.now()}-${suffix}`
GenerateId(t, r) == <<t, r>>

\* { id, ...messageData }
NewMessage(id, messageData) ==
  [id |-> id, text |-> messageData.text, isUser |-> messageData.isUser,
   isStreaming |-> messageData.isStreaming,
   wasManuallyStopped |-> messageData.wasManuallyStopped,
   error |-> messageData.error, attachments |-> messageData.attachments]

\* an add that points at every new message
PointerAfterAdd_Always(sid, id, messageData) == id

\* messageData.isStreaming ? id : state.streamingMessageId
PointerAfterAdd(sid, id, messageData) ==
  IF messageData.isStreaming = "true" THEN id ELSE sid

\* a chunk put in front of the text
AppendChunk_Prepended(message, chunk) == [message EXCEPT !.text = chunk \o message.text]

\* a chunk that replaces the text
AppendChunk_Overwritten(message, chunk) == [message EXCEPT !.text = chunk]

\* { ...message, text: message.text + chunk }
AppendChunk(message, chunk) == [message EXCEPT !.text = message.text \o chunk]

\* a finalize that leaves the flag as it was
Finalize_Skipped(message) == message

\* { ...message, isStreaming: false }
Finalize(message) == [message EXCEPT !.isStreaming = "false"]

\* a stop that sets wasManuallyStopped and forgets isStreaming
ManuallyStop_FlagOnly(message) == [message EXCEPT !.wasManuallyStopped = "true"]

\* a stop that flips wasManuallyStopped instead of setting it
ManuallyStop_Toggled(message) ==
  [message EXCEPT !.wasManuallyStopped = IF @ = "true" THEN "false" ELSE "true",
                  !.isStreaming = "false"]

\* { ...message, wasManuallyStopped: true, isStreaming: false }
ManuallyStop(message) ==
  [message EXCEPT !.wasManuallyStopped = "true", !.isStreaming = "false"]

\* an error that also ends the stream of the message
WithError_EndsStream(message, error) ==
  [message EXCEPT !.error = error, !.isStreaming = "false"]

\* { ...message, error }
WithError(message, error) == [message EXCEPT !.error = error]

\* a finalize or stop that forgets to clear the pointer
PointerAfterEnd_Kept(sid, id) == sid

\* a finalize or stop that clears the pointer whatever the id
PointerAfterEnd_Always(sid, id) == Null

\* state.streamingMessageId === id ? null : state.streamingMessageId
PointerAfterEnd(sid, id) == IF sid = id THEN Null ELSE sid

\* a clear that resets the pointer and keeps the list
ClearedMessages_Kept == messages

\* the message list clearMessages installs
ClearedMessages == <<>>

\* export const selectIsProcessing
selectIsProcessing ==
  isWaitingForResponse \/ streamingMessageId # Null

\* the indices of the messages carrying the id
Matching(id) == {i \in DOMAIN messages : messages[i].id = id}

\* -------------------------------------------- helpers of the API key layer
\* the place of a row the table does not hold
NoRow ==
  [key_value |-> "undefined", service_instance_id |-> "undefined",
   is_default |-> "undefined"]

\* JavaScript's truthiness of a string that may be undefined
Truthy(value) == value \notin {"undefined", ""}

\* encryptApiKey(value, masterKey) when it returns: a text that names the key
\* and the value, and differs from every plaintext
encryptApiKey(value, key) == "enc:" \o key \o ":" \o value

\* decryptApiKey(value, masterKey) returns for the texts encryptApiKey made
\* with the same key, and throws for every other text
Decryptable(value, key) == \E plain \in PlainKeys : value = encryptApiKey(plain, key)
decryptApiKey(value, key) ==
  CHOOSE plain \in PlainKeys : value = encryptApiKey(plain, key)

\* The key values callers pass: plaintexts and a value encrypted beforehand.
GivenKeys == PlainKeys \cup {encryptApiKey("sk-1", "mk1")}

\* Omit<ApiKey, 'id' | 'created_at' | 'updated_at'>, the fields the layer reads
ApiKeyInputs ==
  [key_value : GivenKeys, service_instance_id : {"svc1"}, is_default : {"true", "false"}]

\* Partial<Omit<ApiKey, ...>>
UpdateInputs ==
  [key_value : GivenKeys \cup {"undefined"}, is_default : {"undefined", "true"}]

\* createApiKey: if (!isEncrypted)
CreateEncrypts(apiKey, isEncrypted) == ~isEncrypted

\* an update that asks for the master key whenever the caller asserts plaintext
UpdateEncrypts_Whenever(updates, isEncrypted) == ~isEncrypted

\* updateApiKey: if (updates.key_value && !isEncrypted)
UpdateEncrypts(updates, isEncrypted) == Truthy(updates.key_value) /\ ~isEncrypted

\* the row .update(updates) leaves
Updated(row, updates) ==
  [row EXCEPT !.key_value = IF updates.key_value = "undefined" THEN @
                            ELSE updates.key_value,
              !.is_default = IF updates.is_default = "undefined" THEN @
                             ELSE updates.is_default]

\* what a function returns
Returned(kind, value) == [kind |-> kind, value |-> value]

\* a call of a collaborator, with the key value it is given
Collaborator(call, key_value) == [call |-> call, key_value |-> key_value]

\* data as ApiKey
AsApiKey(id, row) == [id |-> id] @@ row

\* ---------------------------------------------------------- the observers
\* the terminal transition of a message: made by the first finalize or stop
\* that finds the message streaming, and kept from then on
FirstTerminal(h, message, kind) ==
  IF h.terminal = "none" /\ message.isStreaming = "true"
  THEN [h EXCEPT !.terminal = kind] ELSE h

\* what an id given to an operation meets in the current state: no message,
\* a message the user stopped, or another message
EventClass(id) ==
  IF Matching(id) = {} THEN "absent"
  ELSE IF id \in stoppedIds THEN "late"
  ELSE "live"

RECURSIVE SumChunks(_)
SumChunks(h) == IF h = <<>> THEN 0 ELSE Len(Head(h).chunks) + SumChunks(Tail(h))

\* the chunks delivered so far to the messages of the list
TotalChunks == SumChunks(history)

\* appendMessageChunk(id, _) keeps the delivered chunks within MaxStreamChunks
ChunkRoom(id) == TotalChunks + Cardinality(Matching(id)) <= MaxStreamChunks

\* appendMessageChunk(id, chunk) keeps every text within MaxTextLen
TextRoom(id, chunk) ==
  \A i \in Matching(id) : Len(messages[i].text) + Len(chunk) <= MaxTextLen

RECURSIVE Concat(_)
Concat(chunks) == IF chunks = <<>> THEN "" ELSE Head(chunks) \o Concat(Tail(chunks))

\* ---------------------------------------------------------- initial state
Init ==
  /\ messages = <<>>
  /\ streamingMessageId = Null
  /\ isWaitingForResponse = FALSE
  /\ currentConversationId = "null"
  /\ currentTaskId = "null"
  /\ now = 0
  /\ lastOp = [op |-> "none", id |-> Null, pointer |-> Null]
  /\ lastEvent = "none"
  /\ history = <<>>
  /\ stoppedIds = {}
  /\ calls = <<>>
  /\ api_keys = [id \in KeyIds |-> NoRow]
  /\ masterKey = "undefined"
  /\ result = [kind |-> "none", value |-> Null]
  /\ issued = <<>>
  /\ apiCall = [op |-> "none"]

\* ------------------------------------------------------------- operations
\* The clock advances between calls.
Tick ==
  /\ now < MaxClock
  /\ now' = now + 1
  /\ UNCHANGED <<storeVars, apiVars>>

addMessage(messageData, r) ==
  /\ Len(messages) < MaxMessages
  /\ LET id == GenerateId(now, r)
         newMessage == NewMessage(id, messageData)
     IN /\ messages' = Append(messages, newMessage)
        /\ streamingMessageId' = PointerAfterAdd(streamingMessageId, id, messageData)
  /\ UNCHANGED <<isWaitingForResponse, currentConversationId, currentTaskId, now, apiVars>>

appendMessageChunk(id, chunk) ==
  /\ messages' = [i \in DOMAIN messages |->
                    IF messages[i].id = id THEN AppendChunk(messages[i], chunk)
                                           ELSE messages[i]]
  /\ UNCHANGED <<streamingMessageId, isWaitingForResponse, currentConversationId,
                 currentTaskId, now, apiVars>>

finalizeStreamingMessage(id) ==
  /\ messages' = [i \in DOMAIN messages |->
                    IF messages[i].id = id THEN Finalize(messages[i]) ELSE messages[i]]
  /\ streamingMessageId' = PointerAfterEnd(streamingMessageId, id)
  /\ UNCHANGED <<isWaitingForResponse, currentConversationId, currentTaskId, now, apiVars>>

markAsManuallyStopped(id) ==
  /\ messages' = [i \in DOMAIN messages |->
                    IF messages[i].id = id THEN ManuallyStop(messages[i]) ELSE messages[i]]
  /\ streamingMessageId' = PointerAfterEnd(streamingMessageId, id)
  /\ UNCHANGED <<isWaitingForResponse, currentConversationId, currentTaskId, now, apiVars>>

setMessageError(id, error) ==
  /\ messages' = [i \in DOMAIN messages |->
                    IF messages[i].id = id THEN WithError(messages[i], error)
                                           ELSE messages[i]]
  /\ UNCHANGED <<streamingMessageId, isWaitingForResponse, currentConversationId,
                 currentTaskId, now, apiVars>>

\* a clear that resets the whole store to its initial state
clearMessages_ResetAll ==
  /\ messages' = <<>>
  /\ streamingMessageId' = Null
  /\ isWaitingForResponse' = FALSE
  /\ currentConversationId' = "null"
  /\ currentTaskId' = "null"
  /\ UNCHANGED <<now, apiVars>>

clearMessages ==
  /\ messages' = ClearedMessages
  /\ streamingMessageId' = Null
  /\ UNCHANGED <<isWaitingForResponse, currentConversationId, currentTaskId, now, apiVars>>

\* a setter that drops the task when the response stops being awaited
setIsWaitingForResponse_DropsTask(status) ==
  /\ isWaitingForResponse' = status
  /\ currentTaskId' = IF status THEN currentTaskId ELSE "null"
  /\ UNCHANGED <<messages, streamingMessageId, currentConversationId, now, apiVars>>

setIsWaitingForResponse(status) ==
  /\ isWaitingForResponse' = status
  /\ UNCHANGED <<messages, streamingMessageId, currentConversationId, currentTaskId, now, apiVars>>

setCurrentConversationId(conversationId) ==
  /\ currentConversationId' = conversationId
  /\ UNCHANGED <<messages, streamingMessageId, isWaitingForResponse, currentTaskId, now, apiVars>>

setCurrentTaskId(taskId) ==
  /\ currentTaskId' = taskId
  /\ UNCHANGED <<messages, streamingMessageId, isWaitingForResponse,
                 currentConversationId, now, apiVars>>

\* ------------------------------------------ operations of the API key layer
\* The environment sets, unsets or changes API_ENCRYPTION_KEY between calls.
Configure(key) ==
  /\ masterKey' = key
  /\ result' = Returned("none", Null)
  /\ issued' = <<>>
  /\ UNCHANGED <<api_keys, storeVars, now, observers>>

\* how a call that made its backend request ends when the request fails
Failed(outcome, sentinel) ==
  /\ outcome \in {"error", "rejected"}
  /\ result' = IF outcome = "rejected" THEN Returned("thrown", Null)
                                       ELSE Returned(sentinel, Null)
  /\ api_keys' = api_keys

getApiKeyByServiceInstance(serviceInstanceId, outcome) ==
  /\ issued' = <<Collaborator("select", "undefined")>>
  /\ \/ Failed(outcome, "null")
     \/ /\ outcome = "ok"
        /\ LET found == {id \in KeyIds :
                           /\ api_keys[id].service_instance_id = serviceInstanceId
                           /\ api_keys[id].is_default = "true"}
           IN result' = IF Cardinality(found) = 1
                        THEN LET id == CHOOSE id \in found : TRUE
                             IN Returned("data", AsApiKey(id, api_keys[id]))
                        ELSE Returned("null", Null)
        /\ api_keys' = api_keys
  /\ UNCHANGED <<masterKey, storeVars, now, observers>>

\* newId is the id the backend gives to the inserted row
createApiKey(apiKey, isEncrypted, outcome, cipher, newId) ==
  /\ IF CreateEncrypts(apiKey, isEncrypted) /\ ~Truthy(masterKey)
     THEN /\ result' = Returned("null", Null)
          /\ issued' = <<>>
          /\ api_keys' = api_keys
     ELSE IF CreateEncrypts(apiKey, isEncrypted) /\ cipher = "throws"
     THEN /\ result' = Returned("thrown", Null)
          /\ issued' = <<Collaborator("encryptApiKey", apiKey.key_value)>>
          /\ api_keys' = api_keys
     ELSE LET encrypts == CreateEncrypts(apiKey, isEncrypted)
              keyValue == IF encrypts THEN encryptApiKey(apiKey.key_value, masterKey)
                                      ELSE apiKey.key_value
              row == [apiKey EXCEPT !.key_value = keyValue]
          IN /\ issued' =
                  (IF encrypts THEN <<Collaborator("encryptApiKey", apiKey.key_value)>>
                               ELSE <<>>)
                  \o <<Collaborator("insert", keyValue)>>
             /\ \/ Failed(outcome, "null")
                \/ /\ outcome = "ok"
                   /\ api_keys[newId] = NoRow
                   /\ api_keys' = [api_keys EXCEPT ![newId] = row]
                   /\ result' = Returned("data", AsApiKey(newId, row))
  /\ UNCHANGED <<masterKey, storeVars, now, observers>>

updateApiKey(id, updates, isEncrypted, outcome, cipher) ==
  /\ IF UpdateEncrypts(updates, isEncrypted) /\ ~Truthy(masterKey)
     THEN /\ result' = Returned("null", Null)
          /\ issued' = <<>>
          /\ api_keys' = api_keys
     ELSE IF UpdateEncrypts(updates, isEncrypted) /\ cipher = "throws"
     THEN /\ result' = Returned("thrown", Null)
          /\ issued' = <<Collaborator("encryptApiKey", updates.key_value)>>
          /\ api_keys' = api_keys
     ELSE LET encrypts == UpdateEncrypts(updates, isEncrypted)
              sent == IF encrypts
                      THEN [updates EXCEPT
                              !.key_value = encryptApiKey(updates.key_value, masterKey)]
                      ELSE updates
          IN /\ issued' =
                  (IF encrypts THEN <<Collaborator("encryptApiKey", updates.key_value)>>
                               ELSE <<>>)
                  \o <<Collaborator("update", sent.key_value)>>
             /\ \/ Failed(outcome, "null")
                \/ /\ outcome = "ok"
                   /\ IF api_keys[id] = NoRow
                      THEN /\ api_keys' = api_keys
                           /\ result' = Returned("null", Null)
                      ELSE /\ api_keys' = [api_keys EXCEPT ![id] = Updated(@, sent)]
                           /\ result' = Returned("data",
                                                 AsApiKey(id, Updated(api_keys[id], sent)))
  /\ UNCHANGED <<masterKey, storeVars, now, observers>>

deleteApiKey(id, outcome) ==
  /\ issued' = <<Collaborator("delete", "undefined")>>
  /\ \/ Failed(outcome, "false")
     \/ /\ outcome = "ok"
        /\ api_keys' = [api_keys EXCEPT ![id] = NoRow]
        /\ result' = Returned("true", Null)
  /\ UNCHANGED <<masterKey, storeVars, now, observers>>

getDecryptedApiKey(apiKeyId, outcome, cipher) ==
  /\ \/ /\ Failed(outcome, "null")
        /\ issued' = <<Collaborator("select", "undefined")>>
     \/ /\ outcome = "ok"
        /\ api_keys' = api_keys
        /\ IF api_keys[apiKeyId] = NoRow \/ ~Truthy(masterKey)
           THEN /\ result' = Returned("null", Null)
                /\ issued' = <<Collaborator("select", "undefined")>>
           ELSE /\ issued' = <<Collaborator("select", "undefined"),
                               Collaborator("decryptApiKey", api_keys[apiKeyId].key_value)>>
                /\ result' =
                     IF cipher = "ok" /\ Decryptable(api_keys[apiKeyId].key_value, masterKey)
                     THEN Returned("data",
                                   decryptApiKey(api_keys[apiKeyId].key_value, masterKey))
                     ELSE Returned("null", Null)
  /\ UNCHANGED <<masterKey, storeVars, now, observers>>

\* The rpc increment_api_key_usage runs in the backend and changes none of the
\* columns this layer reads.
incrementApiKeyUsage(id, outcome) ==
  /\ issued' = <<Collaborator("rpc", "undefined")>>
  /\ \/ Failed(outcome, "false")
     \/ /\ outcome = "ok"
        /\ api_keys' = api_keys
        /\ result' = Returned("true", Null)
  /\ UNCHANGED <<masterKey, storeVars, now, observers>>

\* ------------------------------------------------ what the observers record
\* SpecStream: each message's history and the ids the user stopped.
ObserveTick ==
  /\ lastEvent' = "none"
  /\ UNCHANGED <<lastOp, history, stoppedIds, calls>>

ObserveAdd(messageData) ==
  /\ lastEvent' = "none"
  /\ history' = Append(history, [base |-> messageData.text, chunks |-> <<>>,
                                 terminal |-> "none"])
  /\ stoppedIds' = {}
  /\ UNCHANGED <<lastOp, calls>>

ObserveChunk(id, chunk) ==
  /\ lastEvent' = IF EventClass(id) = "late" THEN "lateChunk" ELSE EventClass(id)
  /\ history' = [i \in DOMAIN history |->
                    IF messages[i].id = id
                    THEN [history[i] EXCEPT !.chunks = Append(@, chunk)]
                    ELSE history[i]]
  /\ UNCHANGED <<lastOp, stoppedIds, calls>>

ObserveFinalize(id) ==
  /\ lastEvent' = EventClass(id)
  /\ history' = [i \in DOMAIN history |->
                    IF messages[i].id = id THEN FirstTerminal(history[i], messages[i], "finalized")
                                           ELSE history[i]]
  /\ UNCHANGED <<lastOp, stoppedIds, calls>>

ObserveStop(id) ==
  /\ lastEvent' = EventClass(id)
  /\ history' = [i \in DOMAIN history |->
                    IF messages[i].id = id THEN FirstTerminal(history[i], messages[i], "stopped")
                                           ELSE history[i]]
  /\ stoppedIds' = IF Matching(id) # {} THEN stoppedIds \cup {id} ELSE stoppedIds
  /\ UNCHANGED <<lastOp, calls>>

ObserveClear ==
  /\ lastEvent' = "none"
  /\ history' = <<>>
  /\ stoppedIds' = {}
  /\ UNCHANGED <<lastOp, calls>>

\* SpecCalls: the operation called, the id given to it (or returned by it) and
\* the streamingMessageId it found.
ObserveOp(op, id) ==
  /\ lastOp' = [op |-> op, id |-> id, pointer |-> streamingMessageId]
  /\ UNCHANGED <<lastEvent, history, stoppedIds, calls>>

\* SpecMonotone: as ObserveClear, the call being marked as a clear.
ObserveCleared ==
  /\ lastEvent' = "clear"
  /\ history' = <<>>
  /\ stoppedIds' = {}
  /\ UNCHANGED <<lastOp, calls>>

\* SpecOps: the operation called, the id given to it (or generated by it), its
\* other argument, the streamingMessageId and the whole store it found.
ObserveCall(op, id, arg) ==
  /\ lastOp' = [op |-> op, id |-> id, pointer |-> streamingMessageId, arg |-> arg,
                before |-> storeVars]
  /\ UNCHANGED <<lastEvent, history, stoppedIds, calls>>

\* SpecAdd: an addMessage call, with the message it returns (`return newMessage`).
ObserveReturn(messageData, r) ==
  /\ lastOp' = [op |-> "addMessage", id |-> GenerateId(now, r),
                pointer |-> streamingMessageId, arg |-> messageData,
                before |-> storeVars,
                returned |-> NewMessage(GenerateId(now, r), messageData)]
  /\ UNCHANGED <<lastEvent, history, stoppedIds, calls>>

\* SpecScenario: the calls made since the store was created.
ObserveScenario(op, id, arg) ==
  /\ calls' = Append(calls, [op |-> op, id |-> id, arg |-> arg])
  /\ UNCHANGED <<lastOp, lastEvent, history, stoppedIds>>

\* SpecApiKeys: the function called, the id, the key value and the isEncrypted
\* flag given to it, how its collaborators end, and the master key and the
\* table it found.
ObserveApiCall(op, id, key_value, isEncrypted, outcome, cipher) ==
  apiCall' = [op |-> op, id |-> id, key_value |-> key_value,
              isEncrypted |-> isEncrypted, outcome |-> outcome, cipher |-> cipher,
              masterKey |-> masterKey, table |-> api_keys]

\* SpecTolerant: the kind of the call: "add", "clear", "absent" (the id given
\* matches no message) or "none" (any other call).
ObserveKind(kind) ==
  /\ lastEvent' = kind
  /\ UNCHANGED <<lastOp, history, stoppedIds, calls>>

ObserveAbsence(id) == ObserveKind(IF Matching(id) = {} THEN "absent" ELSE "none")

\* --------------------------------------------------------- specifications
\* Spec: every operation of the store, called in any order with any input.
Next ==
  \/ Tick /\ UNCHANGED observers
  \/ \E messageData \in MessageData, r \in RandomSuffixes :
       addMessage(messageData, r) /\ UNCHANGED observers
  \/ \E id \in MessageIds, chunk \in Chunks :
       TextRoom(id, chunk) /\ appendMessageChunk(id, chunk) /\ UNCHANGED observers
  \/ \E id \in MessageIds : finalizeStreamingMessage(id) /\ UNCHANGED observers
  \/ \E id \in MessageIds : markAsManuallyStopped(id) /\ UNCHANGED observers
  \/ \E id \in MessageIds, error \in ErrorValues :
       setMessageError(id, error) /\ UNCHANGED observers
  \/ clearMessages /\ UNCHANGED observers
  \/ \E status \in BOOLEAN : setIsWaitingForResponse(status) /\ UNCHANGED observers
  \/ \E conversationId \in ConversationIds :
       setCurrentConversationId(conversationId) /\ UNCHANGED observers
  \/ \E taskId \in TaskIds : setCurrentTaskId(taskId) /\ UNCHANGED observers

Spec == Init /\ [][Next]_vars

\* SpecTolerant: every operation of the store, the observer recording the kind
\* of each call.
NextTolerant ==
  \/ Tick /\ ObserveKind("none")
  \/ \E messageData \in MessageData, r \in RandomSuffixes :
       addMessage(messageData, r) /\ ObserveKind("add")
  \/ \E id \in MessageIds, chunk \in Chunks :
       TextRoom(id, chunk) /\ appendMessageChunk(id, chunk) /\ ObserveAbsence(id)
  \/ \E id \in MessageIds : finalizeStreamingMessage(id) /\ ObserveAbsence(id)
  \/ \E id \in MessageIds : markAsManuallyStopped(id) /\ ObserveAbsence(id)
  \/ \E id \in MessageIds, error \in ErrorValues :
       setMessageError(id, error) /\ ObserveAbsence(id)
  \/ clearMessages /\ ObserveKind("clear")
  \/ \E status \in BOOLEAN : setIsWaitingForResponse(status) /\ ObserveKind("none")
  \/ \E conversationId \in ConversationIds :
       setCurrentConversationId(conversationId) /\ ObserveKind("none")
  \/ \E taskId \in TaskIds : setCurrentTaskId(taskId) /\ ObserveKind("none")

SpecTolerant == Init /\ [][NextTolerant]_vars

\* SpecCalls: the operations that start and end a stream, and the waiting flag,
\* the observer recording each call.
NextCalls ==
  \/ Tick /\ ObserveOp("tick", Null)
  \/ \E messageData \in MessageData, r \in RandomSuffixes :
       addMessage(messageData, r) /\ ObserveOp("addMessage", GenerateId(now, r))
  \/ \E id \in MessageIds :
       finalizeStreamingMessage(id) /\ ObserveOp("finalizeStreamingMessage", id)
  \/ \E id \in MessageIds :
       markAsManuallyStopped(id) /\ ObserveOp("markAsManuallyStopped", id)
  \/ clearMessages /\ ObserveOp("clearMessages", Null)
  \/ \E status \in BOOLEAN :
       setIsWaitingForResponse(status) /\ ObserveOp("setIsWaitingForResponse", Null)

SpecCalls == Init /\ [][NextCalls]_vars

\* SpecStream: the operations a streamed response and the user's stop drive,
\* with longer streams of chunks, the observers recording each message's history.
NextStream ==
  \/ Tick /\ ObserveTick
  \/ \E messageData \in MessageData, r \in RandomSuffixes :
       addMessage(messageData, r) /\ ObserveAdd(messageData)
  \/ \E id \in MessageIds, chunk \in Chunks :
       ChunkRoom(id) /\ appendMessageChunk(id, chunk) /\ ObserveChunk(id, chunk)
  \/ \E id \in MessageIds : finalizeStreamingMessage(id) /\ ObserveFinalize(id)
  \/ \E id \in MessageIds : markAsManuallyStopped(id) /\ ObserveStop(id)
  \/ clearMessages /\ ObserveClear

SpecStream == Init /\ [][NextStream]_vars

\* the ids addMessage can generate at this instant of the clock
IdsNow == {GenerateId(now, r) : r \in RandomSuffixes}

\* SpecOps: every operation of the store at one instant of the clock, given
\* the ids that instant can generate, the observer recording each call with
\* its arguments and the store it found.
NextOps ==
  \/ \E messageData \in MessageData, r \in RandomSuffixes :
       addMessage(messageData, r) /\ ObserveCall("addMessage", GenerateId(now, r), messageData)
  \/ \E id \in IdsNow, chunk \in Chunks :
       /\ TextRoom(id, chunk)
       /\ appendMessageChunk(id, chunk) /\ ObserveCall("appendMessageChunk", id, chunk)
  \/ \E id \in IdsNow :
       finalizeStreamingMessage(id) /\ ObserveCall("finalizeStreamingMessage", id, Null)
  \/ \E id \in IdsNow :
       markAsManuallyStopped(id) /\ ObserveCall("markAsManuallyStopped", id, Null)
  \/ \E id \in IdsNow, error \in ErrorValues :
       setMessageError(id, error) /\ ObserveCall("setMessageError", id, error)
  \/ clearMessages /\ ObserveCall("clearMessages", Null, Null)
  \/ \E status \in BOOLEAN :
       setIsWaitingForResponse(status) /\ ObserveCall("setIsWaitingForResponse", Null, status)
  \/ \E conversationId \in ConversationIds :
       /\ setCurrentConversationId(conversationId)
       /\ ObserveCall("setCurrentConversationId", Null, conversationId)
  \/ \E taskId \in TaskIds :
       setCurrentTaskId(taskId) /\ ObserveCall("setCurrentTaskId", Null, taskId)

SpecOps == Init /\ [][NextOps]_vars

\* SpecAdd: addMessage with streaming, complete and user messages, and the
\* operations that end a stream or empty the list, the observer recording each
\* call and what addMessage returns.
NextAdd ==
  \/ Tick /\ ObserveCall("tick", Null, Null)
  \/ \E messageData \in CompleteMessageData, r \in RandomSuffixes :
       addMessage(messageData, r) /\ ObserveReturn(messageData, r)
  \/ \E id \in MessageIds :
       finalizeStreamingMessage(id) /\ ObserveCall("finalizeStreamingMessage", id, Null)
  \/ clearMessages /\ ObserveCall("clearMessages", Null, Null)

SpecAdd == Init /\ [][NextAdd]_vars

\* SpecScenario: runs of at most MaxCalls calls of addMessage,
\* appendMessageChunk and finalizeStreamingMessage from the initial store, the
\* observer recording the calls.
NextScenario ==
  \/ \E messageData \in MessageData, r \in RandomSuffixes :
       /\ Len(calls) < MaxCalls
       /\ addMessage(messageData, r)
       /\ ObserveScenario("addMessage", GenerateId(now, r), messageData)
  \/ \E id \in IdsNow, chunk \in Chunks :
       /\ Len(calls) < MaxCalls
       /\ appendMessageChunk(id, chunk)
       /\ ObserveScenario("appendMessageChunk", id, chunk)
  \/ \E id \in IdsNow :
       /\ Len(calls) < MaxCalls
       /\ finalizeStreamingMessage(id)
       /\ ObserveScenario("finalizeStreamingMessage", id, Null)

SpecScenario == Init /\ [][NextScenario]_vars

\* SpecMonotone: the operations on messages and clearMessages at one instant of
\* the clock, with longer streams of chunks, the observers recording each
\* message's history and which calls are clears.
NextMonotone ==
  \/ \E messageData \in MessageData, r \in RandomSuffixes :
       addMessage(messageData, r) /\ ObserveAdd(messageData)
  \/ \E id \in IdsNow, chunk \in Chunks :
       ChunkRoom(id) /\ appendMessageChunk(id, chunk) /\ ObserveChunk(id, chunk)
  \/ \E id \in IdsNow : finalizeStreamingMessage(id) /\ ObserveFinalize(id)
  \/ \E id \in IdsNow : markAsManuallyStopped(id) /\ ObserveStop(id)
  \/ \E id \in IdsNow, error \in ErrorValues :
       setMessageError(id, error) /\ ObserveAbsence(id)
  \/ clearMessages /\ ObserveCleared

SpecMonotone == Init /\ [][NextMonotone]_vars

\* the id the backend gives to the next row: one the table does not hold, while
\* there is one
NextKeyIds ==
  LET free == {id \in KeyIds : api_keys[id] = NoRow}
  IN IF free = {} THEN {} ELSE {CHOOSE id \in free : TRUE}

\* how the encryption function ends, when the call reaches it
CipherChoices(reached) == IF reached THEN CipherOutcomes ELSE {"ok"}

\* SpecApiKeys: the six functions of the API key layer, called in any order
\* with any input, under any outcome of the backend and of the encryption
\* functions, the environment changing the master key in between.
NextApiKeys ==
  \/ \E key \in MasterKeys :
       /\ Configure(key)
       /\ ObserveApiCall("configure", "undefined", "undefined", FALSE, "ok", "ok")
  \/ \E serviceInstanceId \in ServiceInstances, outcome \in BackendOutcomes :
       /\ getApiKeyByServiceInstance(serviceInstanceId, outcome)
       /\ ObserveApiCall("getApiKeyByServiceInstance", serviceInstanceId, "undefined",
                         FALSE, outcome, "ok")
  \/ \E apiKey \in ApiKeyInputs, isEncrypted \in BOOLEAN, outcome \in BackendOutcomes,
        newId \in NextKeyIds :
     \E cipher \in CipherChoices(CreateEncrypts(apiKey, isEncrypted)) :
       /\ createApiKey(apiKey, isEncrypted, outcome, cipher, newId)
       /\ ObserveApiCall("createApiKey", "undefined", apiKey.key_value, isEncrypted,
                         outcome, cipher)
  \/ \E id \in KeyIds, updates \in UpdateInputs, isEncrypted \in BOOLEAN,
        outcome \in BackendOutcomes :
     \E cipher \in CipherChoices(UpdateEncrypts(updates, isEncrypted)) :
       /\ updateApiKey(id, updates, isEncrypted, outcome, cipher)
       /\ ObserveApiCall("updateApiKey", id, updates.key_value, isEncrypted,
                         outcome, cipher)
  \/ \E id \in KeyIds, outcome \in BackendOutcomes :
       /\ deleteApiKey(id, outcome)
       /\ ObserveApiCall("deleteApiKey", id, "undefined", FALSE, outcome, "ok")
  \/ \E apiKeyId \in KeyIds, outcome \in BackendOutcomes, cipher \in CipherOutcomes :
       /\ getDecryptedApiKey(apiKeyId, outcome, cipher)
       /\ ObserveApiCall("getDecryptedApiKey", apiKeyId, "undefined", FALSE,
                         outcome, cipher)
  \/ \E id \in KeyIds, outcome \in BackendOutcomes :
       /\ incrementApiKeyUsage(id, outcome)
       /\ ObserveApiCall("incrementApiKeyUsage", id, "undefined", FALSE, outcome, "ok")

SpecApiKeys == Init /\ [][NextApiKeys]_vars

TypeOK ==
  /\ Len(messages) <= MaxMessages
  /\ streamingMessageId \in MessageIds \cup {Null}
  /\ now \in 0..MaxClock

\* ------------------------------------------------------------------ claims
Streaming == {i \in DOMAIN messages : messages[i].isStreaming = "true"}

\* no two messages of the list carry the same id
IdsUnique ==
  \A i, j \in DOMAIN messages : i # j => messages[i].id # messages[j].id

\* C1: in every reachable state at most one message of `messages` has
\* isStreaming = true (also right after an addMessage with isStreaming = true
\* that found another message streaming). Stated for the states whose ids are
\* pairwise distinct, so that a violation does not rest on two messages
\* sharing an id.
C1_AtMostOneStreaming == IdsUnique => Cardinality(Streaming) <= 1

\* C2: in every reachable state, a non-null streamingMessageId is the id of a
\* message of `messages` whose isStreaming is true.
C2_PointerReferencesStreaming ==
  streamingMessageId # Null =>
    \E i \in DOMAIN messages :
      messages[i].id = streamingMessageId /\ messages[i].isStreaming = "true"

\* C2 witness: the pointer is set while an earlier stream has been ended.
C2_Witness ==
  /\ streamingMessageId # Null
  /\ Len(messages) = 2
  /\ messages[1].isUser = FALSE /\ messages[1].isStreaming = "false"
  /\ messages[2].id = streamingMessageId /\ messages[2].isStreaming = "true"

\* C3: once a message has been finalized or manually stopped, no operation
\* other than clearMessages changes its terminal state: a finalized message
\* never gets wasManuallyStopped = true, a manually stopped message keeps it,
\* and isStreaming never returns to true.
C3_TerminalAbsorbing ==
  [][\A i \in DOMAIN messages :
       i \in DOMAIN messages' =>
         /\ history[i].terminal = "finalized" =>
              messages'[i].wasManuallyStopped = messages[i].wasManuallyStopped
         /\ history[i].terminal = "stopped" =>
              messages'[i].wasManuallyStopped = "true"
         /\ history[i].terminal # "none" => messages'[i].isStreaming # "true"]_vars

C5_IdsUnique == \A i \in DOMAIN messages : Matching(messages[i].id) = {i}

\* C6: the length of `messages` grows by exactly 1 on each addMessage, becomes 0
\* on clearMessages, and is changed by no other operation, whether or not the
\* id given to it is present.
C6_Length ==
  [][/\ lastEvent' = "add" => Len(messages') = Len(messages) + 1
     /\ lastEvent' = "clear" => Len(messages') = 0
     /\ lastEvent' \in {"none", "absent"} => Len(messages') = Len(messages)]_vars

\* C6 witness: a second addMessage has just grown the list, after the store
\* saw other operations.
C6_Witness ==
  /\ lastEvent = "add"
  /\ Len(messages) = 2
  /\ messages[1].error = "boom"
  /\ messages[1].text = "He"
  /\ isWaitingForResponse

\* C7: finalizeStreamingMessage(X) with streamingMessageId = X sets the pointer
\* to null and isStreaming = false on the messages with id X; with any other
\* pointer it leaves the pointer and every message with another id unchanged.
C7_Finalize ==
  [][lastOp'.op = "finalizeStreamingMessage" =>
       /\ streamingMessageId = lastOp'.id =>
            /\ streamingMessageId' = Null
            /\ \A i \in DOMAIN messages' :
                 messages'[i].id = lastOp'.id => messages'[i].isStreaming = "false"
       /\ streamingMessageId # lastOp'.id =>
            /\ streamingMessageId' = streamingMessageId
            /\ DOMAIN messages' = DOMAIN messages
            /\ \A i \in DOMAIN messages :
                 messages[i].id # lastOp'.id => messages'[i] = messages[i]]_vars

\* C7 witness: the streaming message has just been finalized and the pointer
\* is null.
C7_Witness ==
  /\ lastOp.op = "finalizeStreamingMessage"
  /\ lastOp.pointer = lastOp.id
  /\ streamingMessageId = Null
  /\ \E i \in DOMAIN messages :
       /\ messages[i].id = lastOp.id
       /\ messages[i].isUser = FALSE
       /\ messages[i].isStreaming = "false"
       /\ messages[i].wasManuallyStopped = "undefined"

\* C8: markAsManuallyStopped(X) leaves the messages with id X with
\* wasManuallyStopped = true and isStreaming = false together, and when X was
\* the streaming pointer and isWaitingForResponse is false, selectIsProcessing
\* is true before the call and false after it.
C8_ManuallyStopped ==
  [][lastOp'.op = "markAsManuallyStopped" =>
       /\ \A i \in DOMAIN messages' :
            messages'[i].id = lastOp'.id =>
              /\ messages'[i].wasManuallyStopped = "true"
              /\ messages'[i].isStreaming = "false"
       /\ (streamingMessageId = lastOp'.id /\ ~isWaitingForResponse) =>
            (selectIsProcessing /\ ~selectIsProcessing')]_vars

\* C8 witness: a streaming message has just been stopped and nothing is being
\* processed any more.
C8_Witness ==
  /\ lastOp.op = "markAsManuallyStopped"
  /\ lastOp.pointer = lastOp.id
  /\ ~selectIsProcessing
  /\ \E i \in DOMAIN messages :
       /\ messages[i].id = lastOp.id
       /\ messages[i].isUser = FALSE
       /\ messages[i].wasManuallyStopped = "true"
       /\ messages[i].isStreaming = "false"

\* C9: the text of every message is its text at creation followed by the
\* chunks delivered to its id, in the order of their delivery; a message that
\* was delivered no chunk keeps its text.
C9_ChunksInOrder ==
  \A i \in DOMAIN messages :
    messages[i].text = history[i].base \o Concat(history[i].chunks)

\* C9 witness: two different chunks were delivered to one message, with an
\* operation on another id in between or around them.
C9_Witness ==
  /\ Len(messages) = 2
  /\ messages[1].id # messages[2].id
  /\ history[2].chunks = <<"He", "llo">>
  /\ messages[2].text = "Hello"
  /\ messages[1].text = ""
  /\ history[1].terminal = "finalized"

\* C10: appendMessageChunk, finalizeStreamingMessage, markAsManuallyStopped and
\* setMessageError given an id that matches no message leave messages,
\* streamingMessageId, isWaitingForResponse, currentConversationId and
\* currentTaskId as they were.
C10_AbsentIdTolerated ==
  [][lastEvent' = "absent" => UNCHANGED storeVars]_vars

\* C10 witness: an operation has just been given an id that matches no
\* message, in a store that holds messages, a stream and a task.
C10_Witness ==
  /\ lastEvent = "absent"
  /\ Len(messages) = 2
  /\ streamingMessageId # Null
  /\ isWaitingForResponse
  /\ currentConversationId = "conv1"
  /\ currentTaskId = "task1"

\* C11: clearMessages sets `messages` to the empty sequence and
\* streamingMessageId to null, and leaves isWaitingForResponse,
\* currentConversationId and currentTaskId as they were before the call.
C11_ClearFrame ==
  [][lastOp'.op = "clearMessages" =>
       /\ messages' = <<>>
       /\ streamingMessageId' = Null
       /\ isWaitingForResponse' = isWaitingForResponse
       /\ currentConversationId' = currentConversationId
       /\ currentTaskId' = currentTaskId]_vars

\* C11 witness: clearMessages has just emptied a store that held two messages
\* and a stream, while a response was awaited in an identified conversation
\* with a task in flight.
C11_Witness ==
  /\ lastOp.op = "clearMessages"
  /\ Len(lastOp.before[1]) = 2
  /\ lastOp.pointer # Null
  /\ messages = <<>>
  /\ streamingMessageId = Null
  /\ isWaitingForResponse
  /\ currentConversationId = "conv1"
  /\ currentTaskId = "task1"

\* the messages of a list that carry another id than the given one are the
\* same in the two lists
OthersUnchanged(before, after, id) ==
  /\ DOMAIN after = DOMAIN before
  /\ \A i \in DOMAIN before : before[i].id # id => after[i] = before[i]

\* C12: setMessageError(X, e) changes only the error field of the messages
\* with id X (isStreaming, wasManuallyStopped, text, streamingMessageId and the
\* messages with another id are unchanged), whatever the lifecycle state of X;
\* and setMessageError(X, "boom") followed by setMessageError(X, null) leaves X
\* with error = null and every other field of X and of the store as it was
\* before the two calls.
C12_ErrorOnly ==
  [][lastOp'.op = "setMessageError" =>
       /\ OthersUnchanged(messages, messages', lastOp'.id)
       /\ \A i \in DOMAIN messages :
            messages[i].id = lastOp'.id =>
              messages'[i] = [messages[i] EXCEPT !.error = lastOp'.arg]
       /\ UNCHANGED <<streamingMessageId, isWaitingForResponse,
                      currentConversationId, currentTaskId>>
       /\ (/\ lastOp.op = "setMessageError" /\ lastOp.id = lastOp'.id
           /\ lastOp.arg = "boom" /\ lastOp'.arg = "null") =>
            /\ OthersUnchanged(lastOp.before[1], messages', lastOp'.id)
            /\ \A i \in DOMAIN messages' :
                 messages'[i].id = lastOp'.id =>
                   messages'[i] = [lastOp.before[1][i] EXCEPT !.error = "null"]
            /\ <<streamingMessageId', isWaitingForResponse', currentConversationId',
                 currentTaskId'>>
                 = <<lastOp.before[2], lastOp.before[3], lastOp.before[4],
                     lastOp.before[5]>>]_vars

\* C12 witness: setMessageError(X, "boom") then setMessageError(X, null) have
\* just been called on a message that is streaming and has received text,
\* next to a message the user stopped.
C12_Witness ==
  /\ lastOp.op = "setMessageError" /\ lastOp.arg = "null"
  /\ Len(messages) = 2
  /\ messages[1].id # messages[2].id
  /\ messages[1].wasManuallyStopped = "true"
  /\ messages[2].id = lastOp.id
  /\ messages[2].isStreaming = "true" /\ messages[2].text = "He"
  /\ messages[2].error = "null"
  /\ lastOp.before[1][2].error = "boom"

\* C13: addMessage appends the new message as the last element of `messages`
\* and leaves the earlier elements and their order unchanged, returns the
\* message it appended (the data given, with the generated id), sets
\* streamingMessageId to the new id when the data has isStreaming = true
\* (whatever the pointer was), and leaves streamingMessageId unchanged when
\* isStreaming is false or absent.
C13_AddMessage ==
  [][lastOp'.op = "addMessage" =>
       LET n == Len(messages)
           data == lastOp'.arg
       IN /\ Len(messages') = n + 1
          /\ \A i \in 1..n : messages'[i] = messages[i]
          /\ messages'[n + 1] = lastOp'.returned
          /\ lastOp'.returned = [id |-> lastOp'.id] @@ data
          /\ data.isStreaming = "true" => streamingMessageId' = lastOp'.id
          /\ data.isStreaming \in {"false", "undefined"} =>
               streamingMessageId' = streamingMessageId]_vars

\* C13 witness: a complete assistant message (isStreaming: false) has just been
\* added after a message that is streaming, and the pointer stays on the latter.
C13_Witness ==
  /\ lastOp.op = "addMessage"
  /\ lastOp.arg.isStreaming = "false"
  /\ Len(messages) = 2
  /\ messages[2] = lastOp.returned
  /\ messages[1].isStreaming = "true"
  /\ streamingMessageId = messages[1].id
  /\ messages[1].id # messages[2].id

\* the user message and the streaming assistant message of the scenario
UserHi == CHOOSE messageData \in MessageData : messageData.isUser
AssistantStreaming == CHOOSE messageData \in MessageData : ~messageData.isUser

\* the calls of the scenario, A being the id the second addMessage returned
ScenarioCalls(A) ==
  /\ Len(calls) = 5
  /\ calls[1].op = "addMessage" /\ calls[1].arg = UserHi
  /\ calls[2] = [op |-> "addMessage", id |-> A, arg |-> AssistantStreaming]
  /\ calls[3] = [op |-> "appendMessageChunk", id |-> A, arg |-> "He"]
  /\ calls[4] = [op |-> "appendMessageChunk", id |-> A, arg |-> "llo"]
  /\ calls[5] = [op |-> "finalizeStreamingMessage", id |-> A, arg |-> Null]

\* C14: from the initial store, addMessage(user "hi"), addMessage(assistant,
\* isStreaming = true) returning A, appendMessageChunk(A, "He"),
\* appendMessageChunk(A, "llo"), finalizeStreamingMessage(A) end with
\* messages = [user "hi", assistant with text "Hello" and isStreaming = false],
\* streamingMessageId = null and selectIsProcessing equal to
\* isWaitingForResponse; and in every state selectIsProcessing is true iff
\* isWaitingForResponse is true or streamingMessageId is non-null.
C14_Scenario ==
  /\ selectIsProcessing <=> (isWaitingForResponse \/ streamingMessageId # Null)
  /\ \A A \in MessageIds :
       ScenarioCalls(A) =>
         /\ Len(messages) = 2
         /\ messages[1] = NewMessage(calls[1].id, UserHi)
         /\ messages[2].id = A /\ ~messages[2].isUser
         /\ messages[2].text = "Hello" /\ messages[2].isStreaming = "false"
         /\ streamingMessageId = Null
         /\ selectIsProcessing = isWaitingForResponse

MessageOps ==
  {"addMessage", "appendMessageChunk", "finalizeStreamingMessage",
   "markAsManuallyStopped", "setMessageError"}

\* C15: setIsWaitingForResponse, setCurrentConversationId and setCurrentTaskId
\* can be called in every state, each sets its own field to the value given
\* and leaves messages, streamingMessageId and the two other fields unchanged;
\* and addMessage, appendMessageChunk, finalizeStreamingMessage,
\* markAsManuallyStopped and setMessageError leave isWaitingForResponse,
\* currentConversationId and currentTaskId unchanged.
C15_Setters ==
  [][/\ \A status \in BOOLEAN : ENABLED setIsWaitingForResponse(status)
     /\ \A conversationId \in ConversationIds :
          ENABLED setCurrentConversationId(conversationId)
     /\ \A taskId \in TaskIds : ENABLED setCurrentTaskId(taskId)
     /\ lastOp'.op = "setIsWaitingForResponse" =>
          /\ isWaitingForResponse' = lastOp'.arg
          /\ UNCHANGED <<messages, streamingMessageId, currentConversationId,
                         currentTaskId>>
     /\ lastOp'.op = "setCurrentConversationId" =>
          /\ currentConversationId' = lastOp'.arg
          /\ UNCHANGED <<messages, streamingMessageId, isWaitingForResponse,
                         currentTaskId>>
     /\ lastOp'.op = "setCurrentTaskId" =>
          /\ currentTaskId' = lastOp'.arg
          /\ UNCHANGED <<messages, streamingMessageId, isWaitingForResponse,
                         currentConversationId>>
     /\ lastOp'.op \in MessageOps =>
          UNCHANGED <<isWaitingForResponse, currentConversationId,
                      currentTaskId>>]_vars

\* C15 witness: isWaitingForResponse has just been set to false while a message
\* is streaming in an identified conversation with a task in flight.
C15_Witness ==
  /\ lastOp.op = "setIsWaitingForResponse" /\ lastOp.arg = FALSE
  /\ lastOp.before[3] = TRUE
  /\ ~isWaitingForResponse
  /\ Len(messages) = 2
  /\ streamingMessageId # Null
  /\ currentConversationId = "conv1"
  /\ currentTaskId = "task1"

\* the second text is the first one followed by nothing or by one chunk
Extends(text, longer) == \E chunk \in {""} \cup Chunks : longer = text \o chunk

\* C16: on every operation other than clearMessages the message list is
\* append-only and each message's history is monotone: no message is removed,
\* the order of the messages does not change, the id, isUser and attachments of
\* a message do not change, and the text of a message has its previous text as
\* a prefix.
C16_Monotone ==
  [][lastEvent' # "clear" =>
       /\ Len(messages') >= Len(messages)
       /\ \A i \in DOMAIN messages :
            /\ messages'[i].id = messages[i].id
            /\ messages'[i].isUser = messages[i].isUser
            /\ messages'[i].attachments = messages[i].attachments
            /\ Extends(messages[i].text, messages'[i].text)]_vars

\* C16 witness: a second chunk has just been appended to the first of two
\* messages, whose error was set in between.
C16_Witness ==
  /\ lastEvent = "live"
  /\ Len(messages) = 2
  /\ messages[1].id # messages[2].id
  /\ messages[1].text = "Hello"
  /\ messages[1].error = "boom"
  /\ history[1].chunks = <<"He", "llo">>

\* C19: whenever selectIsProcessing is false (isWaitingForResponse is false and
\* streamingMessageId is null), no message of `messages` has isStreaming = true.
C19_GateClosedNoStream == ~selectIsProcessing => Streaming = {}

\* the calls of the backend and of the encryption functions
BackendCalls == {"select", "insert", "update", "delete", "rpc"}
CipherCalls == {"encryptApiKey", "decryptApiKey"}

\* the last call of the API key layer made a call of one of these collaborators
Reached(collaborators) == \E i \in DOMAIN issued : issued[i].call \in collaborators

\* C17: every function of the API key layer returns null or false, and never
\* throws, when a collaborator fails: the backend returns an error or rejects
\* the call, the master key is missing, or encryptApiKey or decryptApiKey
\* throws.
C17_DegradesToSentinel ==
  /\ result.kind # "thrown"
  /\ (Reached(BackendCalls) /\ apiCall.outcome # "ok") => result.kind \in {"null", "false"}
  /\ (Reached(CipherCalls) /\ apiCall.cipher = "throws") =>
       result.kind \in {"null", "false"}
  /\ (/\ apiCall.op \in {"createApiKey", "updateApiKey"}
      /\ ~apiCall.isEncrypted /\ Truthy(apiCall.key_value)
      /\ ~Truthy(apiCall.masterKey)) => result.kind = "null"

\* C18: when createApiKey or updateApiKey is called with isEncrypted = false, a
\* key_value (the empty string included) and a master key configured, every
\* row the call writes holds encryptApiKey of the value given, and not the
\* value given.
C18_PlaintextNeverStored ==
  (/\ apiCall.op \in {"createApiKey", "updateApiKey"}
   /\ ~apiCall.isEncrypted
   /\ apiCall.key_value # "undefined"
   /\ Truthy(apiCall.masterKey)) =>
    \A id \in KeyIds :
      api_keys[id] # apiCall.table[id] =>
        /\ api_keys[id].key_value = encryptApiKey(apiCall.key_value, apiCall.masterKey)
        /\ api_keys[id].key_value # apiCall.key_value

\* the call made no insert and no update, returned null and left the table as
\* it was
RefusedWithoutWrite ==
  /\ result'.kind = "null"
  /\ \A i \in DOMAIN issued' : issued'[i].call \notin {"insert", "update"}
  /\ api_keys' = api_keys

\* C20: with no master key configured, createApiKey with isEncrypted = false,
\* and updateApiKey with isEncrypted = false and a non-empty key_value, return
\* null, make no insert and no update and leave the table unchanged; and
\* updateApiKey whose updates carry no key_value makes the update, which
\* changes the row when the backend accepts it.
C20_MissingMasterKey ==
  [][~Truthy(masterKey) =>
       /\ (apiCall'.op = "createApiKey" /\ ~apiCall'.isEncrypted) => RefusedWithoutWrite
       /\ (/\ apiCall'.op = "updateApiKey" /\ ~apiCall'.isEncrypted
           /\ Truthy(apiCall'.key_value)) => RefusedWithoutWrite
       /\ (apiCall'.op = "updateApiKey" /\ apiCall'.key_value = "undefined") =>
            /\ issued' = <<Collaborator("update", "undefined")>>
            /\ (apiCall'.outcome = "ok" /\ api_keys[apiCall'.id] # NoRow) =>
                 /\ result'.kind = "data"
                 /\ result'.value.id = apiCall'.id
                 /\ api_keys'[apiCall'.id] = [k \in DOMAIN NoRow |-> result'.value[k]]
                 /\ api_keys'[apiCall'.id].key_value = api_keys[apiCall'.id].key_value]_vars

\* C20 witness: with the master key unset, updateApiKey(id, {is_default: true})
\* without the isEncrypted flag has just changed a row whose key was stored
\* encrypted.
C20_Witness ==
  /\ apiCall.op = "updateApiKey"
  /\ apiCall.key_value = "undefined" /\ ~apiCall.isEncrypted
  /\ apiCall.masterKey = "undefined"
  /\ result.kind = "data"
  /\ apiCall.table[apiCall.id].is_default = "false"
  /\ api_keys[apiCall.id].is_default = "true"
  /\ api_keys[apiCall.id].key_value = encryptApiKey("sk-1", "mk1")

====
